---- MODULE Spec2Model ----
(***************************************************************************)
(* Joint limit enforcement handles of joint_limits_interface               *)
(* (joint_limits_interface.hpp) and the parameter loaders getJointLimits   *)
(* and getSoftJointLimits (joint_limits_rosparam.hpp).                     *)
(*                                                                         *)
(* A double is modelled by an integer; NaN is one distinguished value on   *)
(* which every arithmetic operator and every comparison behaves as IEEE    *)
(* 754 prescribes (arithmetic yields NaN, every ordered comparison is      *)
(* false).  Periods are whole seconds.                                     *)
(***************************************************************************)
EXTENDS Integers, Sequences, FiniteSets, TLC

\* ------------------------------------------------------------------ bounds
\* the largest magnitude of a command and of a sensed value
MaxVal == 3
\* the longest period, in seconds
MaxPeriod == 2
\* the largest max_velocity, max_acceleration and max_effort
MaxLimit == 2
\* the largest k_position and k_velocity
MaxGain == 1

\* --------------------------------------------------------- double values
\* std::numeric_limits<double>::quiet_NaN()
NaN == -1000000000
\* std::numeric_limits<double>::max()
DBL_MAX == 1000000

isnan(x) == x = NaN

\* operator< on doubles: false as soon as one side is NaN
Lt(a, b) == ~isnan(a) /\ ~isnan(b) /\ a < b

Add(a, b) == IF isnan(a) \/ isnan(b) THEN NaN ELSE a + b
Sub(a, b) == IF isnan(a) \/ isnan(b) THEN NaN ELSE a - b
Mul(a, b) == IF isnan(a) \/ isnan(b) THEN NaN ELSE a * b
Neg(a) == IF isnan(a) THEN NaN ELSE 0 - a

\* The quotient of get_velocity.  A finite numerator is divided with
\* rounding toward minus infinity; the handles that call get_velocity never
\* store prev_pos_, so the numerator they pass is NaN (EstimateIsNaN).
Div(a, b) == IF isnan(a) \/ isnan(b) THEN NaN ELSE a \div b

\* std::max(a, b) == (a < b) ? b : a
std_max(a, b) == IF Lt(a, b) THEN b ELSE a
\* std::min(a, b) == (b < a) ? b : a
std_min(a, b) == IF Lt(b, a) THEN b ELSE a

\* rcppmath::clamp(v, lo, hi): assert(!(hi < lo)); (v < lo) ? lo : (hi < v) ? hi : v
clamp(v, lo, hi) == IF Lt(v, lo) THEN lo ELSE IF Lt(hi, v) THEN hi ELSE v
\* the assertion of rcppmath::clamp fails
clamp_assert_fails(lo, hi) == Lt(hi, lo)

\* ---------------------------------------------------------------- state
VARIABLES
  policy,         \* the concrete handle class
  limits,         \* limits_
  soft_limits,    \* soft_limits_
  has_jvelh,      \* jvelh_ is bound (not nullptr)
  jposh,          \* value of the position sense handle
  jvelh,          \* value of the velocity sense handle
  jcmdh,          \* value of the command handle
  prev_pos,       \* prev_pos_
  prev_vel,       \* prev_vel_
  min_pos_limit,  \* PositionJointSaturationHandle::min_pos_limit_
  max_pos_limit,  \* PositionJointSaturationHandle::max_pos_limit_
  max_vel_limit,  \* VelocityJointSoftLimitsHandle::max_vel_limit_
  error,          \* "config" when the constructor threw JointLimitsInterfaceException
  aborted,        \* an assert of the last call failed (build without NDEBUG)
  call,           \* the last call: its arguments and the locals it computed
  cycle_pos,      \* the position the last cycle measured to estimate the velocity
  target,         \* the command a tracking controller proposes on every cycle
  node,           \* the parameters declared on the node, by name
  soft_out,       \* the SoftJointLimits handed to getSoftJointLimits
  limits_out,     \* the JointLimits handed to getJointLimits
  ret             \* what the last parameter loader call returned

handle_vars == <<policy, limits, soft_limits, has_jvelh, jposh, jvelh, jcmdh,
                 prev_pos, prev_vel, min_pos_limit, max_pos_limit, max_vel_limit,
                 error, aborted, call, cycle_pos, target>>
param_vars == <<node, soft_out, limits_out, ret>>
vars == <<handle_vars, param_vars>>

PositionSaturation == "PositionJointSaturationHandle"
PositionSoft == "PositionJointSoftLimitsHandle"
EffortSaturation == "EffortJointSaturationHandle"
EffortSoft == "EffortJointSoftLimitsHandle"
VelocitySaturation == "VelocityJointSaturationHandle"
VelocitySoft == "VelocityJointSoftLimitsHandle"

Policies == {PositionSaturation, PositionSoft, EffortSaturation, EffortSoft,
             VelocitySaturation, VelocitySoft}

\* commands and sensed values: at, around and far from zero on both sides
Vals == {0 - MaxVal, -1, 0, 1, MaxVal}
\* positive periods
Periods == {1, MaxPeriod}
\* non-negative limits: none, unit, largest
LimitVals == {0, 1, MaxLimit}
\* positive limits (the soft-limit handles, whose configurations are many)
PositiveLimitVals == {1, MaxLimit}
\* non-negative gains
Gains == {0, MaxGain}

\* ------------------------------------------------------ limit value objects
\* JointLimits as the handles read it; a bound whose flag is unset is 0.0
JointLimits(hp, lo, hi, hv, mv, ha, ma, he, me) ==
  [has_position_limits |-> hp, min_position |-> lo, max_position |-> hi,
   has_velocity_limits |-> hv, max_velocity |-> mv,
   has_acceleration_limits |-> ha, max_acceleration |-> ma,
   has_effort_limits |-> he, max_effort |-> me]

SoftJointLimits(lo, hi, kp, kv) ==
  [min_position |-> lo, max_position |-> hi, k_position |-> kp, k_velocity |-> kv]

NoSoftLimits == SoftJointLimits(0, 0, 0, 0)

\* hard position windows, min_position <= max_position
HardWindows == {<<-1, 1>>, <<0, 1>>}
\* soft bands, min <= max: inside the hard window, equal to it, beyond it
SoftBands == {<<0, 0>>, <<-1, 1>>, <<2, 2>>}

\* an optional bound: absent (flag unset, value 0.0) or present with a value
Optional(S) == {<<FALSE, 0>>} \cup {<<TRUE, x>> : x \in S}
OptionalWindow == {<<FALSE, 0, 0>>} \cup {<<TRUE, w[1], w[2]>> : w \in HardWindows}

\* The configurations each handle class is constructed with.  The effort
\* handles have a constructor that binds no velocity handle; the only
\* constructor of VelocityJointSoftLimitsHandle takes one.
Config(l, s, v) == [limits |-> l, soft_limits |-> s, has_jvelh |-> v]

\* soft limits matter to the position law only when position limits are present
SoftFor(w, kvs) ==
  IF w[1]
    THEN {SoftJointLimits(b[1], b[2], kp, kv) : b \in SoftBands, kp \in Gains, kv \in kvs}
    ELSE {SoftJointLimits(0, 0, 0, kv) : kv \in kvs}

Configs(pol) ==
  CASE pol = PositionSaturation ->
         {Config(JointLimits(w[1], w[2], w[3], v[1], v[2], FALSE, 0, FALSE, 0),
                 NoSoftLimits, FALSE) :
            w \in OptionalWindow, v \in Optional(LimitVals)}
    [] pol = PositionSoft ->
         UNION {{Config(JointLimits(w[1], w[2], w[3], v[1], v[2], FALSE, 0, FALSE, 0),
                        s, FALSE) : s \in SoftFor(w, {0}), v \in Optional(PositiveLimitVals)} :
                  w \in OptionalWindow}
    [] pol = EffortSaturation ->
         {Config(JointLimits(w[1], w[2], w[3], v[1], v[2], FALSE, 0, e[1], e[2]),
                 NoSoftLimits, jv) :
            w \in OptionalWindow, v \in Optional(LimitVals),
            e \in Optional(LimitVals), jv \in BOOLEAN}
    [] pol = EffortSoft ->
         UNION {{Config(JointLimits(w[1], w[2], w[3], v[1], v[2], FALSE, 0, e[1], e[2]),
                        s, jv) :
                   s \in SoftFor(w, Gains), v \in Optional(PositiveLimitVals),
                   e \in Optional(PositiveLimitVals), jv \in BOOLEAN} :
                  w \in OptionalWindow}
    [] pol = VelocitySaturation ->
         {Config(JointLimits(FALSE, 0, 0, v[1], v[2], a[1], a[2], FALSE, 0),
                 NoSoftLimits, jv) :
            v \in Optional(LimitVals), a \in Optional(LimitVals), jv \in BOOLEAN}
    [] pol = VelocitySoft ->
         UNION {{Config(JointLimits(w[1], w[2], w[3], v[1], v[2], a[1], a[2], FALSE, 0),
                        s, jv) :
                   s \in SoftFor(w, {0}), v \in Optional(PositiveLimitVals),
                   a \in Optional(PositiveLimitVals), jv \in {TRUE}} :
                  w \in OptionalWindow}

\* ---------------------------------------------------------- construction
\* a constructor that checks nothing
never_throws(lim) == FALSE

\* the constructor of each class throws JointLimitsInterfaceException
PositionJointSaturationHandle_throws(lim) == FALSE
PositionJointSoftLimitsHandle_throws(lim) == ~lim.has_velocity_limits
EffortJointSaturationHandle_throws(lim) ==
  ~lim.has_velocity_limits \/ ~lim.has_effort_limits
EffortJointSoftLimitsHandle_throws(lim) ==
  ~lim.has_velocity_limits \/ ~lim.has_effort_limits
VelocityJointSaturationHandle_throws(lim) == ~lim.has_velocity_limits
VelocityJointSoftLimitsHandle_throws(lim) == FALSE

ConstructorThrows(pol, lim) ==
  CASE pol = PositionSaturation -> PositionJointSaturationHandle_throws(lim)
    [] pol = PositionSoft -> PositionJointSoftLimitsHandle_throws(lim)
    [] pol = EffortSaturation -> EffortJointSaturationHandle_throws(lim)
    [] pol = EffortSoft -> EffortJointSoftLimitsHandle_throws(lim)
    [] pol = VelocitySaturation -> VelocityJointSaturationHandle_throws(lim)
    [] pol = VelocitySoft -> VelocityJointSoftLimitsHandle_throws(lim)

\* PositionSaturation_pos_limits that reads min_position and max_position whatever the flag
PositionSaturation_pos_limits_unflagged(lim) == <<lim.min_position, lim.max_position>>

\* PositionJointSaturationHandle constructor: <<min_pos_limit_, max_pos_limit_>>
PositionSaturation_pos_limits(lim) ==
  IF lim.has_position_limits
    THEN <<lim.min_position, lim.max_position>>
    ELSE <<0 - DBL_MAX, DBL_MAX>>

\* VelocityJointSoftLimitsHandle constructor: max_vel_limit_
VelocitySoft_max_vel_limit(lim) ==
  IF lim.has_velocity_limits THEN lim.max_velocity ELSE DBL_MAX

\* the record of a call; NoCall before the first one
Call(op, c, dt, pp, pv, p, v, lo, hi) ==
  [op |-> op, cmd |-> c, period |-> dt, prev_pos |-> pp, prev_vel |-> pv,
   pos |-> p, vel |-> v, lo |-> lo, hi |-> hi]
NoCall == Call("none", 0, 1, NaN, 0, 0, 0, 0, 0)

\* The fields the constructor of class pol sets, beyond its arguments:
\* JointSaturationLimitHandle sets prev_pos_ = NaN and prev_vel_ = 0.0,
\* PositionJointSaturationHandle and VelocityJointSoftLimitsHandle their limits.
constructed(pol, lim) ==
  [prev_pos |-> NaN,
   prev_vel |-> 0,
   min_pos_limit |-> IF pol = PositionSaturation
                       THEN PositionSaturation_pos_limits(lim)[1] ELSE 0,
   max_pos_limit |-> IF pol = PositionSaturation
                       THEN PositionSaturation_pos_limits(lim)[2] ELSE 0,
   max_vel_limit |-> IF pol = VelocitySoft THEN VelocitySoft_max_vel_limit(lim) ELSE 0]

\* the fields of the handle now
fields ==
  [prev_pos |-> prev_pos, prev_vel |-> prev_vel, min_pos_limit |-> min_pos_limit,
   max_pos_limit |-> max_pos_limit, max_vel_limit |-> max_vel_limit]

Construct(pol, cfg) ==
  /\ policy = pol
  /\ limits = cfg.limits
  /\ soft_limits = cfg.soft_limits
  /\ has_jvelh = cfg.has_jvelh
  /\ jposh = 0 /\ jvelh = 0 /\ jcmdh = 0
  /\ prev_pos = constructed(pol, cfg.limits).prev_pos
  /\ prev_vel = constructed(pol, cfg.limits).prev_vel
  /\ min_pos_limit = constructed(pol, cfg.limits).min_pos_limit
  /\ max_pos_limit = constructed(pol, cfg.limits).max_pos_limit
  /\ max_vel_limit = constructed(pol, cfg.limits).max_vel_limit
  /\ error = IF ConstructorThrows(pol, cfg.limits) THEN "config" ELSE "none"
  /\ aborted = FALSE
  /\ call = NoCall
  /\ cycle_pos = NaN

\* a handle exists and the process runs
Usable(pol) == policy = pol /\ error = "none" /\ ~aborted

\* ------------------------------------------------------------- the handles
\* The controller proposes a command: set_value on the command handle.
set_command ==
  /\ error = "none" /\ ~aborted
  /\ \E c \in Vals : jcmdh' = c
  /\ call' = NoCall
  /\ UNCHANGED <<policy, limits, soft_limits, has_jvelh, jposh, jvelh, prev_pos, prev_vel,
                 min_pos_limit, max_pos_limit, max_vel_limit, error, aborted,
                 cycle_pos, target>>
  /\ UNCHANGED param_vars

\* The hardware refreshes the position handle (VelocityJointSaturationHandle binds none).
sense_position ==
  /\ error = "none" /\ ~aborted
  /\ policy # VelocitySaturation
  /\ \E p \in Vals : jposh' = p
  /\ call' = NoCall
  /\ UNCHANGED <<policy, limits, soft_limits, has_jvelh, jcmdh, jvelh, prev_pos, prev_vel,
                 min_pos_limit, max_pos_limit, max_vel_limit, error, aborted,
                 cycle_pos, target>>
  /\ UNCHANGED param_vars

\* The hardware refreshes the velocity handle, when one is bound.
sense_velocity ==
  /\ error = "none" /\ ~aborted
  /\ has_jvelh
  /\ \E v \in Vals : jvelh' = v
  /\ call' = NoCall
  /\ UNCHANGED <<policy, limits, soft_limits, has_jvelh, jcmdh, jposh, prev_pos, prev_vel,
                 min_pos_limit, max_pos_limit, max_vel_limit, error, aborted,
                 cycle_pos, target>>
  /\ UNCHANGED param_vars

\* JointSaturationLimitHandle::get_velocity
get_velocity(dt) ==
  IF has_jvelh THEN jvelh ELSE Div(Sub(jposh, prev_pos), dt)

\* reset that leaves prev_vel_ as it is
reset_state_keeps_prev_vel == <<NaN, prev_vel>>

\* JointSaturationLimitHandle::reset: <<prev_pos_, prev_vel_>>
reset_state == <<NaN, 0>>

reset ==
  /\ error = "none" /\ ~aborted
  /\ prev_pos' = reset_state[1]
  /\ prev_vel' = reset_state[2]
  /\ call' = Call("reset", 0, 1, prev_pos, prev_vel, 0, 0, 0, 0)
  /\ cycle_pos' = NaN
  /\ UNCHANGED <<policy, limits, soft_limits, has_jvelh, jposh, jvelh, jcmdh,
                 min_pos_limit, max_pos_limit, max_vel_limit, error, aborted, target>>
  /\ UNCHANGED param_vars

\* the part of the state no enforceLimits touches
EnforceFrame ==
  /\ UNCHANGED <<policy, limits, soft_limits, has_jvelh, jposh, jvelh,
                 min_pos_limit, max_pos_limit, max_vel_limit, error, target>>
  /\ UNCHANGED param_vars

\* seed_prev_pos that measures the position on every cycle
seed_prev_pos_every_cycle == jposh

\* the first cycle seeds prev_pos_ from the position handle (isnan(prev_pos_))
seed_prev_pos == IF isnan(prev_pos) THEN jposh ELSE prev_pos

\* PositionSaturation_window with delta_pos subtracted in both bounds
PositionSaturation_window_one_sided(pp, dt) ==
  IF limits.has_velocity_limits
    THEN LET delta_pos == Mul(limits.max_velocity, dt)
         IN  <<std_max(Sub(pp, delta_pos), min_pos_limit),
               std_min(Sub(pp, delta_pos), max_pos_limit)>>
    ELSE <<min_pos_limit, max_pos_limit>>

\* PositionJointSaturationHandle::enforceLimits: <<min_pos, max_pos>>
PositionSaturation_window(pp, dt) ==
  IF limits.has_velocity_limits
    THEN LET delta_pos == Mul(limits.max_velocity, dt)
         IN  <<std_max(Sub(pp, delta_pos), min_pos_limit),
               std_min(Add(pp, delta_pos), max_pos_limit)>>
    ELSE <<min_pos_limit, max_pos_limit>>

PositionJointSaturationHandle_enforceLimits ==
  /\ Usable(PositionSaturation)
  /\ \E dt \in Periods :
       LET pp == seed_prev_pos
           w == PositionSaturation_window(pp, dt)
           cmd == clamp(jcmdh, w[1], w[2])
       IN  /\ call' = Call("enforceLimits", jcmdh, dt, prev_pos, prev_vel, pp, 0, w[1], w[2])
           /\ \/ /\ jcmdh' = cmd
                 /\ prev_pos' = cmd
                 /\ aborted' = FALSE
              \/ /\ clamp_assert_fails(w[1], w[2])
                 /\ jcmdh' = jcmdh
                 /\ prev_pos' = pp
                 /\ aborted' = TRUE
           /\ UNCHANGED <<prev_vel, cycle_pos>>
  /\ EnforceFrame

\* soft_velocity_bounds that measures the distance to the hard limits
soft_velocity_bounds_to_hard_limits(pos, max_vel) ==
  IF limits.has_position_limits
    THEN <<clamp(Mul(Neg(soft_limits.k_position), Sub(pos, limits.min_position)),
                 Neg(max_vel), max_vel),
           clamp(Mul(Neg(soft_limits.k_position), Sub(pos, limits.max_position)),
                 Neg(max_vel), max_vel)>>
    ELSE <<Neg(max_vel), max_vel>>

\* the proportional law shared by the soft-limit handles: <<soft_min_vel, soft_max_vel>>
soft_velocity_bounds(pos, max_vel) ==
  IF limits.has_position_limits
    THEN <<clamp(Mul(Neg(soft_limits.k_position), Sub(pos, soft_limits.min_position)),
                 Neg(max_vel), max_vel),
           clamp(Mul(Neg(soft_limits.k_position), Sub(pos, soft_limits.max_position)),
                 Neg(max_vel), max_vel)>>
    ELSE <<Neg(max_vel), max_vel>>

\* PositionJointSoftLimitsHandle::enforceLimits: <<pos_low, pos_high>>
PositionSoft_window(pos, dt) ==
  LET sv == soft_velocity_bounds(pos, limits.max_velocity)
      pos_low == Add(pos, Mul(sv[1], dt))
      pos_high == Add(pos, Mul(sv[2], dt))
  IN  IF limits.has_position_limits
        THEN <<std_max(pos_low, limits.min_position),
               std_min(pos_high, limits.max_position)>>
        ELSE <<pos_low, pos_high>>

PositionJointSoftLimitsHandle_enforceLimits ==
  /\ Usable(PositionSoft)
  /\ \E dt \in Periods :
       LET pos == seed_prev_pos
           w == PositionSoft_window(pos, dt)
           pos_cmd == clamp(jcmdh, w[1], w[2])
       IN  /\ call' = Call("enforceLimits", jcmdh, dt, prev_pos, prev_vel, pos, 0, w[1], w[2])
           /\ \/ /\ jcmdh' = pos_cmd
                 /\ prev_pos' = jcmdh'
                 /\ aborted' = FALSE
              \/ /\ clamp_assert_fails(w[1], w[2])
                 /\ jcmdh' = jcmdh
                 /\ prev_pos' = pos
                 /\ aborted' = TRUE
           /\ UNCHANGED <<prev_vel, cycle_pos>>
  /\ EnforceFrame

\* EffortSaturation_window with the two position tests exchanged
EffortSaturation_window_swapped(pos, vel) ==
  LET byPos == IF limits.has_position_limits
                 THEN IF Lt(limits.max_position, pos)
                        THEN <<0, limits.max_effort>>
                        ELSE IF Lt(pos, limits.min_position)
                               THEN <<Neg(limits.max_effort), 0>>
                               ELSE <<Neg(limits.max_effort), limits.max_effort>>
                 ELSE <<Neg(limits.max_effort), limits.max_effort>>
  IN  IF Lt(vel, Neg(limits.max_velocity))
        THEN <<0, byPos[2]>>
        ELSE IF Lt(limits.max_velocity, vel)
               THEN <<byPos[1], 0>>
               ELSE byPos

\* EffortJointSaturationHandle::enforceLimits: <<min_eff, max_eff>>
EffortSaturation_window(pos, vel) ==
  LET byPos == IF limits.has_position_limits
                 THEN IF Lt(pos, limits.min_position)
                        THEN <<0, limits.max_effort>>
                        ELSE IF Lt(limits.max_position, pos)
                               THEN <<Neg(limits.max_effort), 0>>
                               ELSE <<Neg(limits.max_effort), limits.max_effort>>
                 ELSE <<Neg(limits.max_effort), limits.max_effort>>
  IN  IF Lt(vel, Neg(limits.max_velocity))
        THEN <<0, byPos[2]>>
        ELSE IF Lt(limits.max_velocity, vel)
               THEN <<byPos[1], 0>>
               ELSE byPos

\* EffortJointSaturationHandle_enforceLimits that caches the measured position
EffortJointSaturationHandle_enforceLimits_caching ==
  /\ Usable(EffortSaturation)
  /\ \E dt \in Periods :
       LET vel == get_velocity(dt)
           w == EffortSaturation_window(jposh, vel)
           clamped == clamp(jcmdh, w[1], w[2])
       IN  /\ call' = Call("enforceLimits", jcmdh, dt, prev_pos, prev_vel, jposh, vel,
                           w[1], w[2]) @@ [last_pos |-> cycle_pos]
           /\ cycle_pos' = IF has_jvelh THEN cycle_pos ELSE jposh
           /\ \/ /\ jcmdh' = clamped
                 /\ aborted' = FALSE
              \/ /\ clamp_assert_fails(w[1], w[2])
                 /\ jcmdh' = jcmdh
                 /\ aborted' = TRUE
           /\ prev_pos' = jposh
           /\ UNCHANGED prev_vel
  /\ EnforceFrame

EffortJointSaturationHandle_enforceLimits ==
  /\ Usable(EffortSaturation)
  /\ \E dt \in Periods :
       LET vel == get_velocity(dt)
           w == EffortSaturation_window(jposh, vel)
           clamped == clamp(jcmdh, w[1], w[2])
       IN  /\ call' = Call("enforceLimits", jcmdh, dt, prev_pos, prev_vel, jposh, vel,
                           w[1], w[2]) @@ [last_pos |-> cycle_pos]
           /\ cycle_pos' = IF has_jvelh THEN cycle_pos ELSE jposh
           /\ \/ /\ jcmdh' = clamped
                 /\ aborted' = FALSE
              \/ /\ clamp_assert_fails(w[1], w[2])
                 /\ jcmdh' = jcmdh
                 /\ aborted' = TRUE
           /\ UNCHANGED <<prev_pos, prev_vel>>
  /\ EnforceFrame

\* EffortJointSoftLimitsHandle::enforceLimits: <<soft_min_eff, soft_max_eff>>
EffortSoft_window(pos, vel) ==
  LET sv == soft_velocity_bounds(pos, limits.max_velocity)
  IN  <<clamp(Mul(Neg(soft_limits.k_velocity), Sub(vel, sv[1])),
              Neg(limits.max_effort), limits.max_effort),
        clamp(Mul(Neg(soft_limits.k_velocity), Sub(vel, sv[2])),
              Neg(limits.max_effort), limits.max_effort)>>

EffortJointSoftLimitsHandle_enforceLimits ==
  /\ Usable(EffortSoft)
  /\ \E dt \in Periods :
       LET vel == get_velocity(dt)
           w == EffortSoft_window(jposh, vel)
           eff_cmd == clamp(jcmdh, w[1], w[2])
       IN  /\ call' = Call("enforceLimits", jcmdh, dt, prev_pos, prev_vel, jposh, vel,
                           w[1], w[2])
           /\ \/ /\ jcmdh' = eff_cmd
                 /\ aborted' = FALSE
              \/ /\ clamp_assert_fails(w[1], w[2])
                 /\ jcmdh' = jcmdh
                 /\ aborted' = TRUE
           /\ UNCHANGED <<prev_pos, prev_vel, cycle_pos>>
  /\ EnforceFrame

\* VelocitySaturation_window without the intersection with [-max_velocity, max_velocity]
VelocitySaturation_window_uncapped(pv, dt) ==
  IF limits.has_acceleration_limits
    THEN <<Sub(pv, Mul(limits.max_acceleration, dt)),
           Add(pv, Mul(limits.max_acceleration, dt))>>
    ELSE <<Neg(limits.max_velocity), limits.max_velocity>>

\* VelocityJointSaturationHandle::enforceLimits: <<vel_low, vel_high>>
VelocitySaturation_window(pv, dt) ==
  IF limits.has_acceleration_limits
    THEN <<std_max(Sub(pv, Mul(limits.max_acceleration, dt)), Neg(limits.max_velocity)),
           std_min(Add(pv, Mul(limits.max_acceleration, dt)), limits.max_velocity)>>
    ELSE <<Neg(limits.max_velocity), limits.max_velocity>>

VelocityJointSaturationHandle_enforceLimits ==
  /\ Usable(VelocitySaturation)
  /\ \E dt \in Periods :
       LET w == VelocitySaturation_window(prev_vel, dt)
           vel_cmd == clamp(jcmdh, w[1], w[2])
       IN  /\ call' = Call("enforceLimits", jcmdh, dt, prev_pos, prev_vel, 0, 0, w[1], w[2])
           /\ \/ /\ jcmdh' = vel_cmd
                 /\ prev_vel' = jcmdh'
                 /\ aborted' = FALSE
              \/ /\ clamp_assert_fails(w[1], w[2])
                 /\ jcmdh' = jcmdh
                 /\ prev_vel' = prev_vel
                 /\ aborted' = TRUE
           /\ UNCHANGED <<prev_pos, cycle_pos>>
  /\ EnforceFrame

\* VelocityJointSoftLimitsHandle::enforceLimits: <<min_vel, max_vel>>
VelocitySoft_window(pos, vel, dt) ==
  LET sv == soft_velocity_bounds(pos, max_vel_limit)
  IN  IF limits.has_acceleration_limits
        THEN <<std_max(Sub(vel, Mul(limits.max_acceleration, dt)), sv[1]),
               std_min(Add(vel, Mul(limits.max_acceleration, dt)), sv[2])>>
        ELSE sv

VelocityJointSoftLimitsHandle_enforceLimits ==
  /\ Usable(VelocitySoft)
  /\ \E dt \in Periods :
       LET vel == IF limits.has_acceleration_limits THEN get_velocity(dt) ELSE 0
           w == VelocitySoft_window(jposh, vel, dt)
       IN  /\ call' = Call("enforceLimits", jcmdh, dt, prev_pos, prev_vel, jposh, vel,
                           w[1], w[2])
           /\ \/ /\ jcmdh' = clamp(jcmdh, w[1], w[2])
                 /\ aborted' = FALSE
              \/ /\ clamp_assert_fails(w[1], w[2])
                 /\ jcmdh' = jcmdh
                 /\ aborted' = TRUE
           /\ UNCHANGED <<prev_pos, prev_vel, cycle_pos>>
  /\ EnforceFrame

\* ------------------------------------------------- the parameter loader
\* the parameters getSoftJointLimits looks up, under joint_limits.<joint_name>
SoftParamNames == {"has_soft_limits", "k_position", "k_velocity",
                   "soft_lower_limit", "soft_upper_limit"}
SoftValueNames == SoftParamNames \ {"has_soft_limits"}

\* every set of declared parameters: has_soft_limits absent, false or true, and
\* each of the four values absent or holding a double
Partial(names, values) == UNION {[D -> values] : D \in SUBSET names}
Nodes == {f @@ g : f \in Partial({"has_soft_limits"}, BOOLEAN),
                   g \in Partial(SoftValueNames, {0, 1})}

\* rclcpp::Node::has_parameter
has_parameter(nd, n) == n \in DOMAIN nd

\* getSoftJointLimits: <<return value, soft_limits afterwards>>
getSoftJointLimits_result(nd, sl) ==
  IF /\ ~has_parameter(nd, "has_soft_limits")
     /\ ~has_parameter(nd, "k_velocity")
     /\ ~has_parameter(nd, "k_position")
     /\ ~has_parameter(nd, "soft_lower_limit")
     /\ ~has_parameter(nd, "soft_upper_limit")
    THEN <<FALSE, sl>>
    ELSE IF /\ has_parameter(nd, "has_soft_limits")
            /\ nd["has_soft_limits"]
            /\ has_parameter(nd, "k_position")
            /\ has_parameter(nd, "k_velocity")
            /\ has_parameter(nd, "soft_lower_limit")
            /\ has_parameter(nd, "soft_upper_limit")
           THEN <<TRUE, SoftJointLimits(nd["soft_lower_limit"], nd["soft_upper_limit"],
                                        nd["k_position"], nd["k_velocity"])>>
           ELSE <<FALSE, sl>>

\* the record of a loader call: what it returned and the soft_limits it was given
NotCalled == [op |-> "none", value |-> FALSE, before |-> NoSoftLimits]

getSoftJointLimits ==
  /\ soft_out' = getSoftJointLimits_result(node, soft_out)[2]
  /\ ret' = [op |-> "getSoftJointLimits",
             value |-> getSoftJointLimits_result(node, soft_out)[1],
             before |-> soft_out]
  /\ UNCHANGED <<node, limits_out>>
  /\ UNCHANGED handle_vars

\* JointLimits as getJointLimits writes it: the fields the handles read, the jerk
\* limit and angle_wraparound
LoadedJointLimits(lim, hj, mj, aw) ==
  [has_position_limits |-> lim.has_position_limits,
   min_position |-> lim.min_position, max_position |-> lim.max_position,
   has_velocity_limits |-> lim.has_velocity_limits, max_velocity |-> lim.max_velocity,
   has_acceleration_limits |-> lim.has_acceleration_limits,
   max_acceleration |-> lim.max_acceleration,
   has_jerk_limits |-> hj, max_jerk |-> mj,
   has_effort_limits |-> lim.has_effort_limits, max_effort |-> lim.max_effort,
   angle_wraparound |-> aw]

\* the parameters getJointLimits looks up, under joint_limits.<joint_name>
LimitParamNames ==
  {"has_position_limits", "min_position", "max_position",
   "has_velocity_limits", "min_velocity", "max_velocity",
   "has_acceleration_limits", "max_acceleration",
   "has_jerk_limits", "max_jerk",
   "has_effort_limits", "max_effort",
   "angle_wraparound"} \cup SoftParamNames

\* every set of declared limit parameters: each flag absent, false or true, each
\* value absent or holding a double; and the sets that declare soft limits only
LimitNodes ==
  {p @@ q @@ w @@ v @@ u @@ a @@ j @@ e :
     p \in Partial({"has_position_limits"}, BOOLEAN),
     q \in Partial({"min_position", "max_position"}, {1}),
     w \in Partial({"angle_wraparound"}, {TRUE}),
     v \in Partial({"has_velocity_limits"}, BOOLEAN),
     u \in Partial({"min_velocity", "max_velocity"}, {1}),
     a \in {f @@ g : f \in Partial({"has_acceleration_limits"}, BOOLEAN),
                     g \in Partial({"max_acceleration"}, {1})},
     j \in {f @@ g : f \in Partial({"has_jerk_limits"}, BOOLEAN),
                     g \in Partial({"max_jerk"}, {1})},
     e \in {f @@ g : f \in Partial({"has_effort_limits"}, BOOLEAN),
                     g \in Partial({"max_effort"}, {1})}}
  \cup Nodes

\* getJointLimits, the position block
load_position_limits(nd, lim) ==
  IF ~has_parameter(nd, "has_position_limits")
    THEN lim
    ELSE IF ~nd["has_position_limits"]
           THEN LET cleared == [lim EXCEPT !.has_position_limits = FALSE]
                IN  IF has_parameter(nd, "angle_wraparound")
                      THEN [cleared EXCEPT !.angle_wraparound = nd["angle_wraparound"]]
                      ELSE cleared
           ELSE IF has_parameter(nd, "min_position") /\ has_parameter(nd, "max_position")
                  THEN [lim EXCEPT !.has_position_limits = TRUE,
                                   !.min_position = nd["min_position"],
                                   !.max_position = nd["max_position"]]
                  ELSE lim

\* getJointLimits, the velocity, acceleration, jerk and effort blocks: the flag
\* parameter and the value parameter carry the names of the fields they set
load_limit(nd, lim, flag, value) ==
  IF ~has_parameter(nd, flag)
    THEN lim
    ELSE IF ~nd[flag]
           THEN [lim EXCEPT ![flag] = FALSE]
           ELSE IF has_parameter(nd, value)
                  THEN [lim EXCEPT ![flag] = TRUE, ![value] = nd[value]]
                  ELSE lim

\* getJointLimits: <<return value, limits afterwards>>
getJointLimits_result(nd, lim) ==
  IF \A n \in LimitParamNames : ~has_parameter(nd, n)
    THEN <<FALSE, lim>>
    ELSE <<TRUE,
           load_limit(nd,
             load_limit(nd,
               load_limit(nd,
                 load_limit(nd, load_position_limits(nd, lim),
                            "has_velocity_limits", "max_velocity"),
                 "has_acceleration_limits", "max_acceleration"),
               "has_jerk_limits", "max_jerk"),
             "has_effort_limits", "max_effort")>>

getJointLimits ==
  /\ limits_out' = getJointLimits_result(node, limits_out)[2]
  /\ ret' = [op |-> "getJointLimits",
             value |-> getJointLimits_result(node, limits_out)[1],
             before |-> limits_out]
  /\ UNCHANGED <<node, soft_out>>
  /\ UNCHANGED handle_vars

\* ---------------------------------------------------------- specification
NoParams == [n \in {} |-> 0]

\* a default-constructed JointLimits: no limit present
NoLimits ==
  LoadedJointLimits(JointLimits(FALSE, 0, 0, FALSE, 0, FALSE, 0, FALSE, 0), FALSE, 0, FALSE)

InitFor(pols) ==
  /\ \E pol \in pols : \E cfg \in Configs(pol) : Construct(pol, cfg)
  /\ target = 0
  /\ node = NoParams
  /\ soft_out = NoSoftLimits
  /\ limits_out = NoLimits
  /\ ret = NotCalled

Init == InitFor(Policies)

Next ==
  \/ set_command
  \/ sense_position
  \/ sense_velocity
  \/ PositionJointSaturationHandle_enforceLimits
  \/ PositionJointSoftLimitsHandle_enforceLimits
  \/ EffortJointSaturationHandle_enforceLimits
  \/ EffortJointSoftLimitsHandle_enforceLimits
  \/ VelocityJointSaturationHandle_enforceLimits
  \/ VelocityJointSoftLimitsHandle_enforceLimits
  \/ reset

\* one handle of any class, driven by its control loop
Spec == Init /\ [][Next]_vars

\* the soft limits the caller hands in: the defaults, or values set before
SoftLimitsBefore == {NoSoftLimits, SoftJointLimits(-1, 1, 1, 1), SoftJointLimits(0, 1, 0, 1)}

InitParams ==
  /\ Construct(PositionSaturation,
               Config(JointLimits(FALSE, 0, 0, FALSE, 0, FALSE, 0, FALSE, 0),
                      NoSoftLimits, FALSE))
  /\ target = 0
  /\ node \in Nodes
  /\ soft_out \in SoftLimitsBefore
  /\ limits_out = NoLimits
  /\ ret = NotCalled

NextParams == getSoftJointLimits

\* the parameter loader, called on any set of declared parameters
SpecParams == InitParams /\ [][NextParams]_vars

\* the limits the caller hands in: the defaults, or every limit set before
LimitsBefore ==
  {NoLimits,
   LoadedJointLimits(JointLimits(TRUE, -2, 2, TRUE, 2, TRUE, 2, TRUE, 2), TRUE, 2, TRUE)}

InitLimits ==
  /\ Construct(PositionSaturation,
               Config(JointLimits(FALSE, 0, 0, FALSE, 0, FALSE, 0, FALSE, 0),
                      NoSoftLimits, FALSE))
  /\ target = 0
  /\ node \in LimitNodes
  /\ soft_out = NoSoftLimits
  /\ limits_out \in LimitsBefore
  /\ ret = NotCalled

NextLimits == getJointLimits

\* the limits loader, called on any set of declared parameters
SpecLimits == InitLimits /\ [][NextLimits]_vars

\* A controller that tracks one target: every cycle it proposes the same command.
propose_target ==
  /\ set_command
  /\ jcmdh' = target

\* The hardware refreshes the position handle; the first measured position, the
\* one the handle is seeded with, lies within the hard window.
sense_position_first_inside ==
  /\ sense_position
  /\ isnan(prev_pos) =>
       /\ ~Lt(jposh', limits.min_position)
       /\ ~Lt(limits.max_position, jposh')

InitTracking ==
  /\ \E cfg \in Configs(PositionSaturation) :
       /\ cfg.limits.has_position_limits
       /\ cfg.limits.has_velocity_limits
       /\ cfg.limits.max_velocity > 0
       /\ Construct(PositionSaturation, cfg)
  /\ target \in Vals
  /\ node = NoParams
  /\ soft_out = NoSoftLimits
  /\ limits_out = NoLimits
  /\ ret = NotCalled

NextTracking ==
  \/ propose_target
  \/ sense_position_first_inside
  \/ PositionJointSaturationHandle_enforceLimits

\* The control loop of a Position Saturation handle with position and velocity
\* limits: it runs forever, and in every cycle the controller proposes its target
\* and enforceLimits is called.
SpecTracking ==
  /\ InitTracking
  /\ [][NextTracking]_vars
  /\ WF_vars(propose_target)
  /\ WF_vars(PositionJointSaturationHandle_enforceLimits)

\* ------------------------------------------------------------------ claims
\* the handles that call get_velocity never assign prev_pos_
EstimateIsNaN ==
  policy \in {EffortSaturation, EffortSoft, VelocitySoft} => isnan(prev_pos)

\* the last step was an enforceLimits of a pol handle that wrote the command
Wrote(pol) == policy = pol /\ call.op = "enforceLimits" /\ ~aborted

\* lo <= x <= hi on doubles (false as soon as one of them is NaN)
Within(x, lo, hi) ==
  /\ ~isnan(x) /\ ~isnan(lo) /\ ~isnan(hi)
  /\ lo <= x /\ x <= hi

\* C1: Position Saturation with position limits present: every command an
\* enforceLimits call writes lies within [min_position, max_position].
C1_PositionSaturationWithinHardWindow ==
  (Wrote(PositionSaturation) /\ limits.has_position_limits)
    => Within(jcmdh, limits.min_position, limits.max_position)

\* C1, the case: a first cycle seeded outside the hard window by more than
\* max_velocity * period
C1_SeededOutside ==
  /\ Wrote(PositionSaturation) /\ limits.has_position_limits /\ limits.has_velocity_limits
  /\ isnan(call.prev_pos)
  /\ call.pos + limits.max_velocity * call.period < limits.min_position
  /\ limits.max_velocity > 0

\* C2: Position Soft Limits with position limits present: every command an
\* enforceLimits call writes lies within the hard window [min_position, max_position].
C2_PositionSoftWithinHardWindow ==
  (Wrote(PositionSoft) /\ limits.has_position_limits)
    => Within(jcmdh, limits.min_position, limits.max_position)

\* C2, the case: the soft band lies beyond the hard window and the cached
\* position is inside the hard window
C2_SoftBandBeyondHard ==
  /\ Wrote(PositionSoft) /\ limits.has_position_limits
  /\ soft_limits.min_position > limits.max_position
  /\ Within(call.pos, limits.min_position, limits.max_position)

\* C3: Velocity Soft Limits: the written command velocity lies within the
\* [min_vel, max_vel] of the cycle; with velocity limits its magnitude is at most
\* max_velocity; with acceleration limits it lies within
\* [vel - max_acceleration*dt, vel + max_acceleration*dt], vel from get_velocity.
C3_VelocitySoftWithinWindow ==
  Wrote(VelocitySoft) =>
    /\ Within(jcmdh, call.lo, call.hi)
    /\ limits.has_velocity_limits
         => Within(jcmdh, 0 - limits.max_velocity, limits.max_velocity)
    /\ limits.has_acceleration_limits
         => Within(jcmdh, Sub(call.vel, limits.max_acceleration * call.period),
                          Add(call.vel, limits.max_acceleration * call.period))

\* C3, the case: a measured velocity beyond max_velocity by more than
\* max_acceleration * period
C3_MeasuredVelocityBeyondLimit ==
  /\ Wrote(VelocitySoft) /\ has_jvelh
  /\ limits.has_velocity_limits /\ limits.has_acceleration_limits
  /\ call.vel - limits.max_acceleration * call.period > limits.max_velocity

Abs(x) == IF x < 0 THEN 0 - x ELSE x

\* C4: Velocity Saturation: every written command velocity lies within
\* [-max_velocity, max_velocity]; with acceleration limits it differs from the
\* prev_vel held before the call by at most max_acceleration * period; that
\* prev_vel is 0 after construction and after reset; after the call prev_vel is
\* the value written.
C4_VelocitySaturation ==
  /\ Wrote(VelocitySaturation) =>
       /\ Within(jcmdh, 0 - limits.max_velocity, limits.max_velocity)
       /\ limits.has_acceleration_limits =>
            Abs(jcmdh - call.prev_vel) <= limits.max_acceleration * call.period
       /\ prev_vel = jcmdh
  /\ (policy = VelocitySaturation /\ call.op = "reset") => prev_vel = 0

\* C4, the case: a command beyond what the acceleration limit allows from a
\* non-zero cached velocity
C4_AccelerationLimited ==
  /\ Wrote(VelocitySaturation) /\ limits.has_acceleration_limits
  /\ call.prev_vel # 0
  /\ call.cmd > call.prev_vel + limits.max_acceleration * call.period
  /\ jcmdh = call.prev_vel + limits.max_acceleration * call.period
  /\ jcmdh < limits.max_velocity

\* C5: Effort Saturation: the written effort lies within [-max_effort, max_effort];
\* with position limits, a measured position above max_position gives an effort
\* <= 0 and one below min_position an effort >= 0; an effort that retreats is
\* passed through up to the effort limit unless the velocity rule closes that side.
C5_EffortSaturation ==
  Wrote(EffortSaturation) =>
    /\ Within(jcmdh, 0 - limits.max_effort, limits.max_effort)
    /\ limits.has_position_limits =>
         /\ call.pos > limits.max_position => jcmdh <= 0
         /\ call.pos < limits.min_position => jcmdh >= 0
         /\ (call.pos > limits.max_position /\ call.cmd <= 0
               /\ ~Lt(call.vel, 0 - limits.max_velocity))
              => jcmdh = std_max(call.cmd, 0 - limits.max_effort)
         /\ (call.pos < limits.min_position /\ call.cmd >= 0
               /\ ~Lt(limits.max_velocity, call.vel))
              => jcmdh = std_min(call.cmd, limits.max_effort)

\* C5, the case: the measured position is above max_position and a positive
\* effort is proposed
C5_PushingOutIsZeroed ==
  /\ Wrote(EffortSaturation) /\ limits.has_position_limits
  /\ call.pos > limits.max_position
  /\ call.cmd > 0 /\ limits.max_effort > 0
  /\ jcmdh = 0

\* C6: Effort Soft Limits: the written effort is the command clamped into
\* [soft_min_eff, soft_max_eff]; it lies within [-max_effort, max_effort]; and
\* soft_max_eff is not below soft_min_eff (soft min_position <= soft max_position
\* and both gains are non-negative in every configuration).
C6_EffortSoft ==
  Wrote(EffortSoft) =>
    /\ jcmdh = clamp(call.cmd, call.lo, call.hi)
    /\ Within(jcmdh, 0 - limits.max_effort, limits.max_effort)
    /\ ~Lt(call.hi, call.lo)

\* C6, the case: a handle built without a velocity handle is given a command
\* beyond the effort limit
C6_NoVelocityHandle ==
  /\ Wrote(EffortSoft) /\ ~has_jvelh
  /\ call.cmd > limits.max_effort

\* the claim's table of the fields each class requires
RequiredFieldMissing ==
  \/ /\ policy \in {PositionSoft, EffortSaturation, EffortSoft, VelocitySaturation}
     /\ ~limits.has_velocity_limits
  \/ /\ policy \in {EffortSaturation, EffortSoft}
     /\ ~limits.has_effort_limits

\* C7: construction raises a configuration error exactly when a required field
\* is missing, and no enforceLimits or reset call raises one afterwards.
C7_ConfigurationError ==
  /\ error = "config" <=> RequiredFieldMissing
  /\ call.op # "none" => error = "none"

\* C7, the case: an Effort Saturation handle with velocity limits and without
\* effort limits
C7_EffortLimitsMissing ==
  /\ policy = EffortSaturation
  /\ limits.has_velocity_limits /\ ~limits.has_effort_limits
  /\ error = "config"

\* C8: reset returns the cached state to its construction-time values (prev_pos
\* NaN, prev_vel 0), so that every field of a reset handle equals the field of a
\* freshly constructed handle with the same limits; and an enforceLimits of a
\* position policy that finds prev_pos NaN seeds it from the measured position.
C8_ResetIsConstruction ==
  /\ call.op = "reset" => fields = constructed(policy, limits)
  /\ (policy \in {PositionSaturation, PositionSoft} /\ call.op = "enforceLimits"
        /\ isnan(call.prev_pos))
       => call.pos = jposh

\* C8, the case: a reset of a Velocity Saturation handle that had cached a
\* non-zero velocity
C8_ResetAfterUse ==
  /\ call.op = "reset"
  /\ policy = VelocitySaturation
  /\ call.prev_vel # 0 /\ prev_vel = 0

Max(a, b) == IF a < b THEN b ELSE a
Min(a, b) == IF b < a THEN b ELSE a

\* C9: an absent optional limit constrains nothing and raises nothing: Position
\* Saturation with neither position nor velocity limits writes the command back
\* unchanged; without position limits it is restricted only by the velocity
\* rate; Velocity Saturation without acceleration limits writes the command
\* clamped to [-max_velocity, max_velocity] whatever prev_vel is; Velocity Soft
\* Limits with no velocity, position or acceleration limits writes the command
\* back unchanged.
C9_AbsentLimits ==
  /\ policy \in {PositionSaturation, VelocitySoft} => error = "none"
  /\ (policy = PositionSaturation /\ ~limits.has_position_limits) => ~aborted
  /\ (policy = VelocitySaturation /\ ~limits.has_acceleration_limits) => ~aborted
  /\ (policy = VelocitySoft /\ ~limits.has_position_limits
        /\ ~limits.has_acceleration_limits) => ~aborted
  /\ (Wrote(PositionSaturation) /\ ~limits.has_position_limits) =>
       IF limits.has_velocity_limits
         THEN jcmdh = Max(call.pos - limits.max_velocity * call.period,
                          Min(call.pos + limits.max_velocity * call.period, call.cmd))
         ELSE jcmdh = call.cmd
  /\ (Wrote(VelocitySaturation) /\ ~limits.has_acceleration_limits) =>
       jcmdh = Max(0 - limits.max_velocity, Min(limits.max_velocity, call.cmd))
  /\ (Wrote(VelocitySoft) /\ ~limits.has_velocity_limits /\ ~limits.has_position_limits
        /\ ~limits.has_acceleration_limits) =>
       jcmdh = call.cmd

\* C9, the case: a Position Saturation handle with no limit at all is given the
\* largest command
C9_NoLimitAtAll ==
  /\ Wrote(PositionSaturation)
  /\ ~limits.has_position_limits /\ ~limits.has_velocity_limits
  /\ call.cmd = MaxVal /\ jcmdh = MaxVal

\* all four soft-limit values are declared
CompleteSoftSpecification == SoftValueNames \subseteq DOMAIN node

\* C10: getSoftJointLimits returns true and overwrites soft_limits exactly when
\* k_position, k_velocity, soft_lower_limit and soft_upper_limit all exist;
\* otherwise it returns false and leaves all four fields untouched.
C10_SoftLimitsAllOrNothing ==
  ret.op = "getSoftJointLimits" =>
    /\ ret.value <=> CompleteSoftSpecification
    /\ ret.value =>
         soft_out = SoftJointLimits(node["soft_lower_limit"], node["soft_upper_limit"],
                                    node["k_position"], node["k_velocity"])
    /\ ~ret.value => soft_out = ret.before

\* C10, the case: the four values are declared and has_soft_limits is not
C10_CompleteWithoutFlag ==
  /\ ret.op = "getSoftJointLimits"
  /\ CompleteSoftSpecification
  /\ "has_soft_limits" \notin DOMAIN node

\* the fields of JointLimits that a parameter of the same name specifies
LimitFieldNames == LimitParamNames \ (SoftParamNames \cup {"min_velocity"})

\* C11: getJointLimits merges into the JointLimits it is handed: every limit
\* value declared for the joint overwrites the field, every field not declared
\* keeps the value it had, the function returns true exactly when some limits
\* parameter is declared for the joint, and on false the JointLimits is unchanged.
C11_JointLimitsMerge ==
  ret.op = "getJointLimits" =>
    /\ \A n \in LimitFieldNames :
         IF n \in DOMAIN node
           THEN limits_out[n] = node[n]
           ELSE limits_out[n] = ret.before[n]
    /\ ret.value <=> DOMAIN node # {}
    /\ ~ret.value => limits_out = ret.before

\* C11, the case: max_velocity is declared and has_velocity_limits is not
C11_ValueWithoutFlag ==
  /\ ret.op = "getJointLimits" /\ ret.value
  /\ "max_velocity" \in DOMAIN node
  /\ "has_velocity_limits" \notin DOMAIN node

\* C13: Position Saturation with velocity limits present: the written command
\* differs from the prev_pos held at the start of the computation (the cached
\* one, or the measured position when the cached one is NaN) by at most
\* max_velocity * period, whatever the measured position and the command are.
C13_PositionSaturationRate ==
  (Wrote(PositionSaturation) /\ limits.has_velocity_limits) =>
    /\ call.pos = (IF isnan(call.prev_pos) THEN jposh ELSE call.prev_pos)
    /\ Abs(jcmdh - call.pos) <= limits.max_velocity * call.period

\* C13, the case: a first cycle seeded below the hard window by more than
\* max_velocity * period, with a command that asks to stay there
C13_SeededOutsideCommandStays ==
  /\ Wrote(PositionSaturation) /\ limits.has_position_limits /\ limits.has_velocity_limits
  /\ isnan(call.prev_pos)
  /\ limits.max_velocity > 0
  /\ call.pos + limits.max_velocity * call.period < limits.min_position
  /\ call.cmd = call.pos

\* C14: Effort Saturation, the velocity rule: a velocity from get_velocity (the
\* measured one when a velocity handle is bound, otherwise (measured position -
\* prev_pos) / period) above max_velocity gives a written effort <= 0, one below
\* -max_velocity an effort >= 0; and for a handle without a velocity handle, a
\* measured position that moved by more than max_velocity * period since the
\* cycle before restricts the effort of this cycle in the same way.
C14_EffortSaturationVelocityRule ==
  Wrote(EffortSaturation) =>
    /\ call.vel = (IF has_jvelh THEN jvelh
                                ELSE Div(Sub(call.pos, call.prev_pos), call.period))
    /\ Lt(limits.max_velocity, call.vel) => jcmdh <= 0
    /\ Lt(call.vel, 0 - limits.max_velocity) => jcmdh >= 0
    /\ (~has_jvelh /\ ~isnan(call.last_pos)) =>
         /\ call.pos - call.last_pos > limits.max_velocity * call.period => jcmdh <= 0
         /\ call.last_pos - call.pos > limits.max_velocity * call.period => jcmdh >= 0

\* C14, the case: the second of two cycles of a handle without a velocity handle,
\* the measured position having moved up by more than max_velocity * period, and
\* a positive effort proposed
C14_MovedBetweenCycles ==
  /\ Wrote(EffortSaturation) /\ ~has_jvelh
  /\ ~isnan(call.last_pos)
  /\ call.pos - call.last_pos > limits.max_velocity * call.period
  /\ call.cmd > 0 /\ limits.max_effort > 0

\* a step of a position policy, as open-loop tracking allows it
OpenLoopStep ==
  policy \in {PositionSaturation, PositionSoft} =>
    /\ (call'.op = "enforceLimits" /\ ~aborted') =>
         /\ call'.pos = (IF isnan(prev_pos) THEN jposh ELSE prev_pos)
         /\ prev_pos' = jcmdh'
         /\ ~isnan(prev_pos')
    /\ prev_pos' # prev_pos => call'.op \in {"enforceLimits", "reset"}
    /\ call'.op = "reset" => isnan(prev_pos')

\* C15: the position policies track the commanded trajectory: an enforceLimits
\* call reads the measured position only when the cached prev_pos is NaN (after
\* construction or reset) and otherwise works from the cached prev_pos; after it
\* prev_pos is the command it wrote; and between two calls nothing but a reset
\* changes prev_pos, so a later cycle starts from the last written command
\* whatever position was measured since.
C15_OpenLoopTracking == [][OpenLoopStep]_vars

\* C15, the case: a later cycle of a Position Soft Limits handle whose measured
\* position differs from the cached prev_pos, and whose command is cut back
C15_LaterCycleElsewhere ==
  /\ Wrote(PositionSoft)
  /\ ~isnan(call.prev_pos)
  /\ jposh # call.prev_pos
  /\ call.pos = call.prev_pos
  /\ jcmdh # call.cmd

\* a step, as the frame of enforceLimits allows it
EnforceLimitsFrame ==
  call'.op = "enforceLimits" =>
    /\ UNCHANGED <<jposh, jvelh, limits, soft_limits>>
    /\ policy \in {EffortSaturation, EffortSoft, VelocitySoft} =>
         UNCHANGED <<prev_pos, prev_vel>>
    /\ policy \in {PositionSaturation, PositionSoft} => UNCHANGED prev_vel
    /\ policy = VelocitySaturation => UNCHANGED prev_pos
    /\ UNCHANGED <<policy, has_jvelh, min_pos_limit, max_pos_limit, max_vel_limit, error>>
    /\ UNCHANGED <<node, soft_out, limits_out>>

\* C16: no enforceLimits changes the position-sense value, the velocity-sense
\* value, the JointLimits or the SoftJointLimits; Effort Saturation, Effort Soft
\* Limits and Velocity Soft Limits leave prev_pos and prev_vel unchanged, the two
\* position policies leave prev_vel unchanged and Velocity Saturation leaves
\* prev_pos unchanged; beyond the cached state only the command value changes.
C16_EnforceLimitsFrame == [][EnforceLimitsFrame]_vars

\* C16, the case: a second cycle of an Effort Saturation handle without a
\* velocity handle, at a new measured position, that changes the command
C16_EffortCycleWritesCommand ==
  /\ Wrote(EffortSaturation) /\ ~has_jvelh
  /\ ~isnan(call.last_pos) /\ call.last_pos # call.pos
  /\ jcmdh # call.cmd
  /\ isnan(prev_pos) /\ prev_vel = 0

\* what C17 says of a cycle of a Position Soft Limits handle at a soft band edge
AtSoftEdge ==
  /\ call.pos = soft_limits.min_position =>
       /\ soft_velocity_bounds(call.pos, limits.max_velocity)[1] = 0
       /\ call.lo = call.pos
       /\ call.cmd < call.pos => jcmdh = call.pos
  /\ call.pos = soft_limits.max_position =>
       /\ soft_velocity_bounds(call.pos, limits.max_velocity)[2] = 0
       /\ call.hi = call.pos
       /\ call.cmd > call.pos => jcmdh = call.pos

\* C17 as stated: Position Soft Limits with position limits present: when the
\* cached position equals soft min_position, soft_min_vel is 0, the lower position
\* bound of the cycle equals the cached position and a command below it is
\* written as exactly that position; symmetrically at soft max_position.
C17_AtSoftEdgeAnywhere ==
  (Wrote(PositionSoft) /\ limits.has_position_limits) => AtSoftEdge

\* C17, amended: the same, when the cached position lies within the hard window
\* [min_position, max_position].
C17_AtSoftEdgeInsideHardWindow ==
  (Wrote(PositionSoft) /\ limits.has_position_limits
     /\ Within(call.pos, limits.min_position, limits.max_position))
    => AtSoftEdge

\* C17, the case: the cached position is at soft min_position, strictly inside
\* the hard window, the gain is positive and the command asks to go below
C17_RetreatRefused ==
  /\ Wrote(PositionSoft) /\ limits.has_position_limits
  /\ call.pos = soft_limits.min_position
  /\ soft_limits.k_position > 0
  /\ limits.min_position < call.pos /\ call.pos <= limits.max_position
  /\ call.cmd < call.pos /\ jcmdh = call.pos

\* C18: in every enforceLimits call of every policy (every configuration has
\* positive periods, non-negative limits and gains, min_position <= max_position
\* and soft min <= soft max), the interval handed to the final clamp is non-empty,
\* lower bound <= upper bound, and the value written is a member of it.
C18_ClampIntervalNonEmpty ==
  call.op = "enforceLimits" =>
    /\ ~isnan(call.lo) /\ ~isnan(call.hi)
    /\ call.lo <= call.hi
    /\ ~aborted
    /\ Within(jcmdh, call.lo, call.hi)

\* C18, the case: a Position Soft Limits handle whose soft band lies within its
\* hard window, on a first cycle seeded above the hard window by more than
\* max_velocity * period
C18_SoftHandleSeededOutside ==
  /\ policy = PositionSoft /\ call.op = "enforceLimits"
  /\ limits.has_position_limits
  /\ limits.min_position <= soft_limits.min_position
  /\ soft_limits.max_position <= limits.max_position
  /\ isnan(call.prev_pos)
  /\ call.pos - limits.max_velocity * call.period > limits.max_position
  /\ Lt(call.hi, call.lo)

\* C19: Position Saturation with position and velocity limits, max_velocity *
\* period > 0 and a first measured position inside the hard window, the same
\* target proposed on every cycle and no reset: after finitely many enforceLimits
\* calls the written command equals clamp(target, min_position, max_position),
\* and it equals it on every later cycle.
C19_ConvergesToClampedTarget ==
  <>[](call.op = "enforceLimits"
         => jcmdh = clamp(target, limits.min_position, limits.max_position))

\* C19, the case: the cycle in which the written command arrives at the hard
\* limit, the target lying beyond it
C19_ArrivesAtHardLimit ==
  /\ Wrote(PositionSaturation)
  /\ ~isnan(call.prev_pos)
  /\ target > limits.max_position
  /\ call.cmd = target
  /\ call.prev_pos < limits.max_position
  /\ jcmdh = limits.max_position

====
